---------------------------- MODULE Spec2Model ----------------------------
(* Model of main.cpp: the KnownBits abstract domain (enumeration,           *)
(* concretization, abstraction), the composite and the decomposed           *)
(* sextInReg transfer functions, and the driver that compares them.         *)
EXTENDS Integers, Naturals, Sequences, FiniteSets, TLC

(***************************************************************************)
(* Program constants and model bounds.                                     *)
(***************************************************************************)
\* runTests: for (unsigned BitWidth = 4; BitWidth <= 8; ++BitWidth)
MinBitWidth == 4
MaxBitWidth == 8

\* largest bit-width of the abstract values handed to concretize and to the
\* two transfer functions
MaxWidth == 4
\* largest bit-width of the concrete sets handed to abstract
MaxAbstractWidth == 3
\* largest number of insertions that build a concrete set handed to abstract
MaxSetSize == 3

(***************************************************************************)
(* llvm::APInt: a value VAL of BitWidth bits, 0 <= VAL < 2^BitWidth.       *)
(***************************************************************************)
APInt(BitWidth, val) == [BitWidth |-> BitWidth, VAL |-> val % (2 ^ BitWidth)]

\* APInt::operator[] : the bit at a position
Bit(A, i) == ((A.VAL \div (2 ^ i)) % 2) = 1

setBit(A, i) == IF Bit(A, i) THEN A ELSE [A EXCEPT !.VAL = @ + 2 ^ i]

clearBit(A, i) == IF Bit(A, i) THEN [A EXCEPT !.VAL = @ - 2 ^ i] ELSE A

RECURSIVE AndVal(_, _, _)
AndVal(a, b, n) ==
    IF n = 0 THEN 0
    ELSE (a % 2) * (b % 2) + 2 * AndVal(a \div 2, b \div 2, n - 1)

\* APInt::operator&= (both operands have the same width)
BitAnd(A, B) == [A EXCEPT !.VAL = AndVal(A.VAL, B.VAL, A.BitWidth)]

\* APInt::operator~
BitNot(A) == [A EXCEPT !.VAL = (2 ^ A.BitWidth) - 1 - @]

\* APInt::operator<< : the bits shifted past the top are lost
shl(A, ShiftAmt) == [A EXCEPT !.VAL = (@ * (2 ^ ShiftAmt)) % (2 ^ A.BitWidth)]

\* APInt::lshrInPlace : zeros enter at the top (the program does not call
\* it; a faulty variant of sextInRegComposite does)
lshr(A, ShiftAmt) == [A EXCEPT !.VAL = @ \div (2 ^ ShiftAmt)]

\* APInt::ashrInPlace : copies of the top bit enter at the top
ashr(A, ShiftAmt) ==
    [A EXCEPT !.VAL =
        (@ \div (2 ^ ShiftAmt))
        + (IF Bit(A, A.BitWidth - 1)
              THEN (2 ^ A.BitWidth) - (2 ^ (A.BitWidth - ShiftAmt))
              ELSE 0)]

\* APInt::zextOrTrunc
zextOrTrunc(A, BitWidth) == APInt(BitWidth, A.VAL)

\* APInt::ult, the order of APIntComparator
ult(A, B) == A.VAL < B.VAL

(***************************************************************************)
(* llvm::KnownBits: the two masks Zero and One.                            *)
(***************************************************************************)
\* KnownBits(unsigned BitWidth): every bit unknown
KnownBits(BitWidth) == [Zero |-> APInt(BitWidth, 0), One |-> APInt(BitWidth, 0)]

\* KnownBits(): the default-constructed value holds two 1-bit APInts
KnownBitsDefault == KnownBits(1)

getBitWidth(KB) == KB.Zero.BitWidth

(***************************************************************************)
(* countSetBits                                                            *)
(***************************************************************************)
RECURSIVE countSetBitsFrom(_, _)
countSetBitsFrom(Value, i) ==
    IF i >= Value.BitWidth THEN 0
    ELSE (IF Bit(Value, i) THEN 1 ELSE 0) + countSetBitsFrom(Value, i + 1)

countSetBits(Value) == countSetBitsFrom(Value, 0)

(***************************************************************************)
(* enumerateKnownBits                                                      *)
(***************************************************************************)
\* uint64_t NumAbstractValues = pow(3, BitWidth)
NumAbstractValues(BitWidth) == 3 ^ BitWidth

\* the inner loop over Bit: one base-3 digit of AbsVal per bit
RECURSIVE enumerateBits(_, _, _, _)
enumerateBits(KBInstance, AbsVal, Bit_, BitWidth) ==
    IF Bit_ >= BitWidth THEN KBInstance
    ELSE LET Rem == AbsVal % 3
             KB1 == IF Rem = 0 THEN [KBInstance EXCEPT !.Zero = setBit(@, Bit_)]
                    ELSE IF Rem = 1 THEN [KBInstance EXCEPT !.One = setBit(@, Bit_)]
                    ELSE KBInstance
         IN  enumerateBits(KB1, AbsVal \div 3, Bit_ + 1, BitWidth)

\* faulty variant: digit 0 marks the bit known one and digit 1 known zero
enumerateOneMutSwap(BitWidth, i) ==
    LET KB == enumerateBits(KnownBits(BitWidth), i, 0, BitWidth)
    IN  [Zero |-> KB.One, One |-> KB.Zero]

\* the body of the outer loop for one i: the value pushed for index i
enumerateOne(BitWidth, i) == enumerateBits(KnownBits(BitWidth), i, 0, BitWidth)

\* the vector after the call (Valid is always true, so every i pushes);
\* element i of the vector is at position i + 1 of the sequence
enumerateKnownBits(BitWidth) ==
    [k \in 1..NumAbstractValues(BitWidth) |-> enumerateOne(BitWidth, k - 1)]

(***************************************************************************)
(* concretize                                                              *)
(***************************************************************************)
\* std::vector<unsigned> UnknownBitPositions, in increasing order
RECURSIVE UnknownBitPositionsFrom(_, _)
UnknownBitPositionsFrom(KBInstance, Bit_) ==
    IF Bit_ >= getBitWidth(KBInstance) THEN << >>
    ELSE (IF ~Bit(KBInstance.Zero, Bit_) /\ ~Bit(KBInstance.One, Bit_)
             THEN <<Bit_>> ELSE << >>)
         \o UnknownBitPositionsFrom(KBInstance, Bit_ + 1)

UnknownBitPositions(KBInstance) == UnknownBitPositionsFrom(KBInstance, 0)

\* the inner loop over j, on the value's bits: bit j of i goes to position
\* UnknownBitPositions[j] (the vector's element j is at position j + 1 of
\* the sequence); setBit where i & (1ULL << j), clearBit elsewhere
RECURSIVE concretizeValue(_, _, _, _)
concretizeValue(val, i, Positions, j) ==
    IF j >= Len(Positions) THEN val
    ELSE concretizeValue(
            IF (i \div (2 ^ j)) % 2 = 1
               THEN (IF (val \div (2 ^ Positions[j + 1])) % 2 = 1
                        THEN val ELSE val + 2 ^ Positions[j + 1])
               ELSE (IF (val \div (2 ^ Positions[j + 1])) % 2 = 1
                        THEN val - 2 ^ Positions[j + 1] ELSE val),
            i, Positions, j + 1)

\* faulty variant: Value starts from 0 instead of KBInstance.One, so the known
\* one bits are lost
concretizeMutFromZero(KBInstance) ==
    LET BitWidth == getBitWidth(KBInstance)
        Positions == UnknownBitPositions(KBInstance)
    IN  { APInt(BitWidth, concretizeValue(0, i, Positions, 0)) :
            i \in 0..((2 ^ Len(Positions)) - 1) }

\* NumUnknownBits is unsigned: it does not wrap as long as the two masks are
\* disjoint, and concretize is handed no other value
concretize(KBInstance) ==
    LET BitWidth == getBitWidth(KBInstance)
        NumKnownZeroBits == countSetBits(KBInstance.Zero)
        NumKnownOneBits == countSetBits(KBInstance.One)
        NumUnknownBits == BitWidth - (NumKnownZeroBits + NumKnownOneBits)
        NumConcreteValues == 2 ^ NumUnknownBits
        Positions == UnknownBitPositions(KBInstance)
    IN  { [BitWidth |-> BitWidth,
           VAL |-> concretizeValue(KBInstance.One.VAL, i, Positions, 0)] :
            i \in 0..(NumConcreteValues - 1) }

(***************************************************************************)
(* abstract                                                                *)
(***************************************************************************)
\* Values.begin(): the least element in the order of APIntComparator
begin(Values) == CHOOSE v \in Values : \A w \in Values : ~ult(w, v)

\* the loop over Values; &= is commutative and associative, so the order of
\* the iteration does not change the result
RECURSIVE abstractLoop(_, _, _)
abstractLoop(Rest, KnownZero, KnownOne) ==
    IF Rest = {} THEN [Zero |-> KnownZero, One |-> KnownOne]
    ELSE LET Val == begin(Rest)
         IN  abstractLoop(Rest \ {Val},
                          BitAnd(KnownZero, BitNot(Val)),
                          BitAnd(KnownOne, Val))

\* faulty variant: the loop over Values is missing, only the first element
\* is summarised
abstractMutNoLoop(Values, BitWidth) ==
    IF Values = {} THEN KnownBits(BitWidth)
    ELSE [Zero |-> BitNot(zextOrTrunc(begin(Values), BitWidth)),
          One  |-> zextOrTrunc(begin(Values), BitWidth)]

abstract(Values, BitWidth) ==
    IF Values = {} THEN KnownBits(BitWidth)
    ELSE abstractLoop(Values,
                      BitNot(zextOrTrunc(begin(Values), BitWidth)),
                      zextOrTrunc(begin(Values), BitWidth))

(***************************************************************************)
(* sextInRegComposite and sextInRegDecomposed                              *)
(***************************************************************************)
\* assert(0 < SrcBitWidth && SrcBitWidth <= BitWidth && "Illegal sext-in-register")
\* fails: the process aborts and the call returns nothing
Abort == [abort |-> "Illegal sext-in-register"]

Aborted(r) == "abort" \in DOMAIN r

\* faulty variant: a logical instead of an arithmetic shift right
sextInRegCompositeMutLshr(KBInstance, SrcBitWidth) ==
    LET BitWidth == getBitWidth(KBInstance)
        ExtBits == BitWidth - SrcBitWidth
    IN  IF ~(0 < SrcBitWidth /\ SrcBitWidth <= BitWidth) THEN Abort
        ELSE IF SrcBitWidth = BitWidth THEN KBInstance
        ELSE [Zero |-> lshr(shl(KBInstance.Zero, ExtBits), ExtBits),
              One  |-> lshr(shl(KBInstance.One, ExtBits), ExtBits)]

\* faulty variant: the assertion does not test 0 < SrcBitWidth
sextInRegCompositeMutAssert(KBInstance, SrcBitWidth) ==
    LET BitWidth == getBitWidth(KBInstance)
        ExtBits == BitWidth - SrcBitWidth
    IN  IF ~(SrcBitWidth <= BitWidth) THEN Abort
        ELSE IF SrcBitWidth = BitWidth THEN KBInstance
        ELSE [Zero |-> ashr(shl(KBInstance.Zero, ExtBits), ExtBits),
              One  |-> ashr(shl(KBInstance.One, ExtBits), ExtBits)]

\* faulty variant: the masks are truncated to SrcBitWidth and not extended back
sextInRegCompositeMutTrunc(KBInstance, SrcBitWidth) ==
    LET BitWidth == getBitWidth(KBInstance)
    IN  IF ~(0 < SrcBitWidth /\ SrcBitWidth <= BitWidth) THEN Abort
        ELSE IF SrcBitWidth = BitWidth THEN KBInstance
        ELSE [Zero |-> zextOrTrunc(KBInstance.Zero, SrcBitWidth),
              One  |-> zextOrTrunc(KBInstance.One, SrcBitWidth)]

\* KnownBits Result; Result.One = ...; Result.Zero = ...: the assignments
\* replace the default-constructed 1-bit masks, width included
sextInRegComposite(KBInstance, SrcBitWidth) ==
    LET BitWidth == getBitWidth(KBInstance)
        ExtBits == BitWidth - SrcBitWidth
        Result0 == KnownBitsDefault
        Result1 == [Result0 EXCEPT !.One = shl(KBInstance.One, ExtBits)]
        Result2 == [Result1 EXCEPT !.Zero = shl(KBInstance.Zero, ExtBits)]
        Result3 == [Result2 EXCEPT !.One = ashr(@, ExtBits)]
        Result4 == [Result3 EXCEPT !.Zero = ashr(@, ExtBits)]
    IN  IF ~(0 < SrcBitWidth /\ SrcBitWidth <= BitWidth) THEN Abort
        ELSE IF SrcBitWidth = BitWidth THEN KBInstance
        ELSE Result4

\* for (i = 0; i < SrcBitWidth; ++i): copy the known low bits
RECURSIVE copyLowBits(_, _, _, _)
copyLowBits(KBInstance, Result, i, SrcBitWidth) ==
    IF i >= SrcBitWidth THEN Result
    ELSE LET R1 == IF Bit(KBInstance.One, i)
                      THEN [Result EXCEPT !.One = setBit(@, i)] ELSE Result
             R2 == IF Bit(KBInstance.Zero, i)
                      THEN [R1 EXCEPT !.Zero = setBit(@, i)] ELSE R1
         IN  copyLowBits(KBInstance, R2, i + 1, SrcBitWidth)

\* for (i = SrcBitWidth; i < BitWidth; ++i): extend the sign bit, and leave
\* the loop at once when the sign bit is unknown
RECURSIVE extendSignBit(_, _, _, _)
extendSignBit(Result, SignBitKnownOne, SignBitKnownZero, i) ==
    IF i >= getBitWidth(Result) THEN Result
    ELSE IF SignBitKnownOne
        THEN extendSignBit([Result EXCEPT !.One = setBit(@, i)],
                           SignBitKnownOne, SignBitKnownZero, i + 1)
    ELSE IF SignBitKnownZero
        THEN extendSignBit([Result EXCEPT !.Zero = setBit(@, i)],
                           SignBitKnownOne, SignBitKnownZero, i + 1)
    ELSE Result

\* faulty variant: the loop that extends the sign bit is missing
sextInRegDecomposedMutNoExtend(KBInstance, SrcBitWidth) ==
    LET BitWidth == getBitWidth(KBInstance)
    IN  IF ~(0 < SrcBitWidth /\ SrcBitWidth <= BitWidth) THEN Abort
        ELSE IF SrcBitWidth = BitWidth THEN KBInstance
        ELSE copyLowBits(KBInstance, KnownBits(BitWidth), 0, SrcBitWidth)

\* faulty variant: the sign bit is read at SrcBitWidth instead of SrcBitWidth - 1
sextInRegDecomposedMutSignIndex(KBInstance, SrcBitWidth) ==
    LET BitWidth == getBitWidth(KBInstance)
        SignBitIndex == SrcBitWidth
    IN  IF ~(0 < SrcBitWidth /\ SrcBitWidth <= BitWidth) THEN Abort
        ELSE IF SrcBitWidth = BitWidth THEN KBInstance
        ELSE extendSignBit(copyLowBits(KBInstance, KnownBits(BitWidth), 0, SrcBitWidth),
                           Bit(KBInstance.One, SignBitIndex),
                           Bit(KBInstance.Zero, SignBitIndex),
                           SrcBitWidth)

\* faulty variant: the early return hands back a fresh, fully unknown value
sextInRegDecomposedMutFresh(KBInstance, SrcBitWidth) ==
    LET BitWidth == getBitWidth(KBInstance)
        SignBitIndex == SrcBitWidth - 1
    IN  IF ~(0 < SrcBitWidth /\ SrcBitWidth <= BitWidth) THEN Abort
        ELSE IF SrcBitWidth = BitWidth THEN KnownBits(BitWidth)
        ELSE extendSignBit(copyLowBits(KBInstance, KnownBits(BitWidth), 0, SrcBitWidth),
                           Bit(KBInstance.One, SignBitIndex),
                           Bit(KBInstance.Zero, SignBitIndex),
                           SrcBitWidth)

sextInRegDecomposed(KBInstance, SrcBitWidth) ==
    LET BitWidth == getBitWidth(KBInstance)
        SignBitIndex == SrcBitWidth - 1
    IN  IF ~(0 < SrcBitWidth /\ SrcBitWidth <= BitWidth) THEN Abort
        ELSE IF SrcBitWidth = BitWidth THEN KBInstance
        ELSE extendSignBit(copyLowBits(KBInstance, KnownBits(BitWidth), 0, SrcBitWidth),
                           Bit(KBInstance.One, SignBitIndex),
                           Bit(KBInstance.Zero, SignBitIndex),
                           SrcBitWidth)

(***************************************************************************)
(* The comparison of testTransferFunctions.                                *)
(***************************************************************************)
\* std::includes(First.begin(), First.end(), Second.begin(), Second.end()):
\* every element of the sorted range Second is in the sorted range First
includes(First, Second) == \A x \in Second : \E y \in First : ~ult(x, y) /\ ~ult(y, x)

\* faulty variant: the test for equal sets is missing from the chain
classifyMutNoEqual(CompositeSet, DecomposedSet) ==
    LET CompositeSubset == includes(DecomposedSet, CompositeSet)
        DecomposedSubset == includes(CompositeSet, DecomposedSet)
    IN  IF CompositeSubset /\ ~DecomposedSubset THEN "CompositeMorePrecise"
        ELSE IF DecomposedSubset /\ ~CompositeSubset THEN "DecomposedMorePrecise"
        ELSE "Incomparable"

\* the if / else-if chain that picks the counter to increment
classify(CompositeSet, DecomposedSet) ==
    LET CompositeSubset == includes(DecomposedSet, CompositeSet)
        DecomposedSubset == includes(CompositeSet, DecomposedSet)
    IN  IF CompositeSet = DecomposedSet THEN "EquallyPrecise"
        ELSE IF CompositeSubset /\ ~DecomposedSubset THEN "CompositeMorePrecise"
        ELSE IF DecomposedSubset /\ ~CompositeSubset THEN "DecomposedMorePrecise"
        ELSE "Incomparable"

(***************************************************************************)
(* Sets of values of a width.                                              *)
(***************************************************************************)
\* every APInt of a width
APInts(W) == { APInt(W, v) : v \in 0..((2 ^ W) - 1) }

\* every pair of masks of a width, the ill-formed ones included
AllKnownBits(W) == { [Zero |-> z, One |-> o] : z \in APInts(W), o \in APInts(W) }

\* no bit is both known zero and known one
Disjoint(KB) ==
    \A b \in 0..(KB.Zero.BitWidth - 1) : ~(Bit(KB.Zero, b) /\ Bit(KB.One, b))

WellFormed(KB) == KB.Zero.BitWidth = KB.One.BitWidth /\ Disjoint(KB)

(***************************************************************************)
(* concretize is a pure function: the driver, which calls it twice per     *)
(* iteration, reads its result from a table that concretize fills once per *)
(* well-formed abstract value of the widths runTests visits.               *)
(***************************************************************************)
concretizeTable ==
    [W \in MinBitWidth..MaxBitWidth |->
        [KB \in { K \in AllKnownBits(W) : WellFormed(K) } |-> concretize(KB)]
        @@ << >>]
    @@ << >>

concretizeCall(KBInstance) ==
    IF getBitWidth(KBInstance) \in MinBitWidth..MaxBitWidth /\ WellFormed(KBInstance)
       THEN concretizeTable[getBitWidth(KBInstance)][KBInstance]
       ELSE concretize(KBInstance)

(***************************************************************************)
(* State.                                                                  *)
(***************************************************************************)
VARIABLES
    pc,                     \* where main is
    runBitWidth, runSrcBitWidth,  \* the loop variables BitWidth and SrcBitWidth of runTests
    idx,                    \* how many elements of KnownBitsList the loop has visited
    TotalComparisons, CompositeMorePrecise, DecomposedMorePrecise,
    EquallyPrecise, Incomparable,
    CompositeResult, DecomposedResult,      \* the locals of the last iteration:
    CompositeConcrete, DecomposedConcrete,  \* the two results, their concretizations
    stdout,                 \* the report blocks printed so far
    exitCode,
    call,                   \* a call of one library function: its name and arguments
    ret                     \* what that call returned

counters == <<TotalComparisons, CompositeMorePrecise, DecomposedMorePrecise,
              EquallyPrecise, Incomparable>>

results == <<CompositeResult, DecomposedResult,
             CompositeConcrete, DecomposedConcrete>>

driverVars == <<pc, runBitWidth, runSrcBitWidth, idx, counters, results,
                stdout, exitCode>>

callVars == <<call, ret>>

vars == <<driverVars, callVars>>

NoCall == [fn |-> "none"]

Pending == [status |-> "pending"]

Returned(v) == [status |-> "returned", value |-> v]

Terminated == [status |-> "aborted"]

\* main has just called runTests, which enters its loops
DriverInit ==
    /\ pc = "call"
    /\ runBitWidth = MinBitWidth
    /\ runSrcBitWidth = 1
    /\ idx = 0
    /\ TotalComparisons = 0
    /\ CompositeMorePrecise = 0
    /\ DecomposedMorePrecise = 0
    /\ EquallyPrecise = 0
    /\ Incomparable = 0
    /\ CompositeResult = KnownBitsDefault
    /\ DecomposedResult = KnownBitsDefault
    /\ CompositeConcrete = {}
    /\ DecomposedConcrete = {}
    /\ stdout = << >>
    /\ exitCode = -1

Init ==
    /\ DriverInit
    /\ call = NoCall
    /\ ret = Pending

(***************************************************************************)
(* The driver: main, runTests, testTransferFunctions.                      *)
(***************************************************************************)
\* testTransferFunctions, up to its loop: KnownBitsList is filled by
\* enumerateKnownBits(runBitWidth) and is not changed afterwards, so the state
\* keeps the loop's position idx and element idx is enumerateOne(runBitWidth, idx)
testTransferFunctionsEnter ==
    /\ pc = "call"
    /\ pc' = "loop"
    /\ idx' = 0
    /\ TotalComparisons' = 0
    /\ CompositeMorePrecise' = 0
    /\ DecomposedMorePrecise' = 0
    /\ EquallyPrecise' = 0
    /\ Incomparable' = 0
    /\ UNCHANGED <<runBitWidth, runSrcBitWidth, results, stdout, exitCode,
                   callVars>>

\* one iteration of for (const auto &KBInstance : KnownBitsList); the
\* singleton sets bind each local once it is computed
LoopBody ==
    /\ pc = "loop"
    /\ idx < NumAbstractValues(runBitWidth)
    /\ TotalComparisons' = TotalComparisons + 1
    /\ idx' = idx + 1
    /\ \E KBInstance \in {enumerateOne(runBitWidth, idx)} :
       \E Composite \in {sextInRegComposite(KBInstance, runSrcBitWidth)} :
       \E Decomposed \in {sextInRegDecomposed(KBInstance, runSrcBitWidth)} :
          IF Aborted(Composite) \/ Aborted(Decomposed)
          THEN /\ pc' = "aborted"
               /\ UNCHANGED <<CompositeMorePrecise, DecomposedMorePrecise,
                              EquallyPrecise, Incomparable, results>>
          ELSE \E CompositeSet \in {concretizeCall(Composite)} :
               \E DecomposedSet \in {concretizeCall(Decomposed)} :
               \E kind \in {classify(CompositeSet, DecomposedSet)} :
                  /\ pc' = "loop"
                  /\ CompositeResult' = Composite
                  /\ DecomposedResult' = Decomposed
                  /\ CompositeConcrete' = CompositeSet
                  /\ DecomposedConcrete' = DecomposedSet
                  /\ EquallyPrecise' =
                       EquallyPrecise + (IF kind = "EquallyPrecise" THEN 1 ELSE 0)
                  /\ CompositeMorePrecise' =
                       CompositeMorePrecise
                       + (IF kind = "CompositeMorePrecise" THEN 1 ELSE 0)
                  /\ DecomposedMorePrecise' =
                       DecomposedMorePrecise
                       + (IF kind = "DecomposedMorePrecise" THEN 1 ELSE 0)
                  /\ Incomparable' =
                       Incomparable + (IF kind = "Incomparable" THEN 1 ELSE 0)
    /\ UNCHANGED <<runBitWidth, runSrcBitWidth, stdout, exitCode, callVars>>

\* the report block of testTransferFunctions
ReportBlock ==
    [BitWidth |-> runBitWidth, SrcBitWidth |-> runSrcBitWidth,
     Total |-> TotalComparisons, Equal |-> EquallyPrecise,
     CompositeMore |-> CompositeMorePrecise,
     DecomposedMore |-> DecomposedMorePrecise,
     Incomparable |-> Incomparable]

\* the loop is over: print the block, return to runTests, which steps its
\* loop variables and calls again or returns to main
PrintReport ==
    /\ pc = "loop"
    /\ idx = NumAbstractValues(runBitWidth)
    /\ stdout' = Append(stdout, ReportBlock)
    /\ IF runSrcBitWidth + 1 <= runBitWidth
          THEN /\ runSrcBitWidth' = runSrcBitWidth + 1
               /\ runBitWidth' = runBitWidth
               /\ pc' = "call"
          ELSE IF runBitWidth + 1 <= MaxBitWidth
          THEN /\ runSrcBitWidth' = 1
               /\ runBitWidth' = runBitWidth + 1
               /\ pc' = "call"
          ELSE /\ UNCHANGED <<runBitWidth, runSrcBitWidth>>
               /\ pc' = "return"
    /\ UNCHANGED <<idx, counters, results, exitCode, callVars>>

\* main: return 0
MainReturn ==
    /\ pc = "return"
    /\ pc' = "exited"
    /\ exitCode' = 0
    /\ UNCHANGED <<runBitWidth, runSrcBitWidth, idx, counters, results, stdout,
                   callVars>>

Next ==
    \/ testTransferFunctionsEnter
    \/ LoopBody
    \/ PrintReport
    \/ MainReturn

Spec == Init /\ [][Next]_vars

(***************************************************************************)
(* The library functions called on their own, on every input of a bounded  *)
(* set.                                                                    *)
(***************************************************************************)
\* the sets built by at most n insertions of elements of D
RECURSIVE SetsUpTo(_, _)
SetsUpTo(D, n) ==
    IF n = 0 THEN { {} }
    ELSE LET P == SetsUpTo(D, n - 1)
         IN  P \cup { s \cup {x} : s \in P, x \in D }

CallInputs ==
    { [fn |-> "enumerateKnownBits", BitWidth |-> W] : W \in 1..MaxBitWidth }
    \cup UNION { { [fn |-> "concretize", KBInstance |-> KB] :
                     KB \in { K \in AllKnownBits(W) : WellFormed(K) } } :
                 W \in 1..MaxWidth }
    \cup UNION { { [fn |-> "abstract", Values |-> S, BitWidth |-> W] :
                     S \in SetsUpTo(APInts(W), MaxSetSize) } :
                 W \in 1..MaxAbstractWidth }
    \cup UNION { { [fn |-> f, KBInstance |-> KB, SrcBitWidth |-> S] :
                     f \in {"sextInRegComposite", "sextInRegDecomposed"},
                     KB \in AllKnownBits(W), S \in 0..(W + 1) } :
                 W \in 1..MaxWidth }

InitCalls ==
    /\ DriverInit
    /\ call \in CallInputs
    /\ ret = Pending

CallEnumerateKnownBits ==
    /\ call.fn = "enumerateKnownBits"
    /\ ret = Pending
    /\ ret' = Returned(enumerateKnownBits(call.BitWidth))
    /\ UNCHANGED <<call, driverVars>>

CallConcretize ==
    /\ call.fn = "concretize"
    /\ ret = Pending
    /\ ret' = Returned(concretize(call.KBInstance))
    /\ UNCHANGED <<call, driverVars>>

CallAbstract ==
    /\ call.fn = "abstract"
    /\ ret = Pending
    /\ ret' = Returned(abstract(call.Values, call.BitWidth))
    /\ UNCHANGED <<call, driverVars>>

CallSextInRegComposite ==
    /\ call.fn = "sextInRegComposite"
    /\ ret = Pending
    /\ LET r == sextInRegComposite(call.KBInstance, call.SrcBitWidth)
       IN  ret' = IF Aborted(r) THEN Terminated ELSE Returned(r)
    /\ UNCHANGED <<call, driverVars>>

CallSextInRegDecomposed ==
    /\ call.fn = "sextInRegDecomposed"
    /\ ret = Pending
    /\ LET r == sextInRegDecomposed(call.KBInstance, call.SrcBitWidth)
       IN  ret' = IF Aborted(r) THEN Terminated ELSE Returned(r)
    /\ UNCHANGED <<call, driverVars>>

NextCalls ==
    \/ CallEnumerateKnownBits
    \/ CallConcretize
    \/ CallAbstract
    \/ CallSextInRegComposite
    \/ CallSextInRegDecomposed

SpecCalls == InitCalls /\ [][NextCalls]_vars

(***************************************************************************)
(* Properties.                                                             *)
(***************************************************************************)
\* the bit of a number at a position
NumBit(c, b) == (c \div (2 ^ b)) % 2

\* the positions of the unknown bits of an abstract value
UnknownBits(KB) ==
    { b \in 0..(KB.Zero.BitWidth - 1) : ~Bit(KB.Zero, b) /\ ~Bit(KB.One, b) }

\* the numbers consistent with the known bits of an abstract value
Consistent(KB) ==
    { c \in 0..((2 ^ KB.Zero.BitWidth) - 1) :
        \A b \in 0..(KB.Zero.BitWidth - 1) :
            /\ Bit(KB.Zero, b) => NumBit(c, b) = 0
            /\ Bit(KB.One, b) => NumBit(c, b) = 1 }

\* every bit that A knows, B knows with the same value
KnowsAtLeast(B, A) ==
    \A b \in 0..(A.Zero.BitWidth - 1) :
        /\ Bit(A.Zero, b) => Bit(B.Zero, b)
        /\ Bit(A.One, b) => Bit(B.One, b)

\* concrete sign-extend-in-register: keep the low S bits of c and copy bit
\* S - 1 into the bits S .. W - 1
SextConcrete(c, S, W) ==
    LET low == c % (2 ^ S)
    IN  IF NumBit(low, S - 1) = 1 THEN low + (2 ^ W) - (2 ^ S) ELSE low

\* the number of report blocks of a full run
NumBlocks == ((MaxBitWidth * (MaxBitWidth + 1)) - (MinBitWidth * (MinBitWidth - 1))) \div 2

IsSextCall == call.fn \in {"sextInRegComposite", "sextInRegDecomposed"}

\* C1: in every iteration of every (BitWidth, SrcBitWidth) pair of the sweep
\* the concretization of the decomposed result is a subset of the
\* concretization of the composite result (the decomposed result knows every
\* bit the composite result knows), so the counters Composite More Precise
\* and Incomparable Results are 0 throughout and in every printed block.
C1_DecomposedAtLeastAsPrecise ==
    /\ idx > 0 =>
        /\ DecomposedConcrete \subseteq CompositeConcrete
        /\ KnowsAtLeast(DecomposedResult, CompositeResult)
    /\ CompositeMorePrecise = 0
    /\ Incomparable = 0
    /\ \A k \in 1..Len(stdout) :
        stdout[k].CompositeMore = 0 /\ stdout[k].Incomparable = 0

C1_Witness ==
    /\ pc = "exited"
    /\ Len(stdout) = NumBlocks
    /\ stdout[NumBlocks].BitWidth = MaxBitWidth
    /\ stdout[NumBlocks].CompositeMore = 0
    /\ DecomposedConcrete \subseteq CompositeConcrete

\* C2: in every iteration of every pair of the sweep the composite and the
\* decomposed transfer function return the same knownZero and knownOne
\* masks, hence the same concretization; Equal Precision equals Total Values
\* and Decomposed More Precise is 0, throughout and in every printed block.
C2_CompositeSameAsDecomposed ==
    /\ idx > 0 =>
        /\ CompositeResult.Zero = DecomposedResult.Zero
        /\ CompositeResult.One = DecomposedResult.One
        /\ CompositeConcrete = DecomposedConcrete
    /\ EquallyPrecise = TotalComparisons
    /\ DecomposedMorePrecise = 0
    /\ \A k \in 1..Len(stdout) :
        stdout[k].Equal = stdout[k].Total /\ stdout[k].DecomposedMore = 0

C2_Witness ==
    /\ pc = "loop"
    /\ runBitWidth = MaxBitWidth
    /\ runSrcBitWidth = 3
    /\ idx = NumAbstractValues(MaxBitWidth)
    /\ EquallyPrecise = NumAbstractValues(MaxBitWidth)
    /\ CompositeResult = DecomposedResult

\* C3: enumerateKnownBits(W) appends exactly 3^W values, pairwise distinct,
\* and the value at index i has bit b known zero, known one or unknown
\* exactly when the b-th base-3 digit of i is 0, 1 or 2.
C3_EnumerationComplete ==
    (call.fn = "enumerateKnownBits" /\ ret.status = "returned") =>
        LET W == call.BitWidth
            L == ret.value
        IN  /\ Len(L) = 3 ^ W
            /\ Cardinality({ L[k] : k \in 1..Len(L) }) = Len(L)
            /\ \A i \in 0..(Len(L) - 1) : \A b \in 0..(W - 1) :
                LET digit == (i \div (3 ^ b)) % 3
                IN  /\ Bit(L[i + 1].Zero, b) <=> digit = 0
                    /\ Bit(L[i + 1].One, b) <=> digit = 1

C3_Witness ==
    /\ call.fn = "enumerateKnownBits"
    /\ call.BitWidth = MaxBitWidth
    /\ ret.status = "returned"
    /\ Len(ret.value) = 3 ^ MaxBitWidth
    /\ ret.value[3 ^ MaxBitWidth] = KnownBits(MaxBitWidth)

\* C4: for a well-formed abstract value with k unknown bits concretize
\* returns exactly 2^k distinct values of the same width, and they are
\* exactly the values consistent with the known bits.
C4_ConcretizeExact ==
    (call.fn = "concretize" /\ ret.status = "returned") =>
        LET KB == call.KBInstance
        IN  /\ Cardinality(ret.value) = 2 ^ Cardinality(UnknownBits(KB))
            /\ \A v \in ret.value : v.BitWidth = KB.Zero.BitWidth
            /\ { v.VAL : v \in ret.value } = Consistent(KB)

C4_Witness ==
    /\ call.fn = "concretize"
    /\ ret.status = "returned"
    /\ Cardinality(UnknownBits(call.KBInstance)) = 2
    /\ call.KBInstance.One.VAL # 0
    /\ call.KBInstance.Zero.VAL # 0
    /\ Cardinality(ret.value) = 4

\* C5: for every set S of W-bit values, the empty set included,
\* concretize(abstract(S, W)) is a superset of S; abstract marks a bit known
\* zero only if it is 0 in every element of S, known one only if it is 1 in
\* every element of S, and returns the fully unknown value for the empty set.
C5_RoundTripSound ==
    (call.fn = "abstract" /\ ret.status = "returned") =>
        LET KB == ret.value
            W == call.BitWidth
        IN  /\ call.Values \subseteq concretize(KB)
            /\ \A b \in 0..(W - 1) :
                /\ Bit(KB.Zero, b) => \A v \in call.Values : ~Bit(v, b)
                /\ Bit(KB.One, b) => \A v \in call.Values : Bit(v, b)
            /\ call.Values = {} => UnknownBits(KB) = 0..(W - 1)

C5_Witness ==
    /\ call.fn = "abstract"
    /\ ret.status = "returned"
    /\ Cardinality(call.Values) = 2
    /\ ret.value.One.VAL # 0
    /\ ret.value.Zero.VAL # 0
    /\ UnknownBits(ret.value) # {}
    /\ call.Values \subseteq concretize(ret.value)

\* C6: when SrcBitWidth equals the width of the input, both transfer
\* functions return the input unchanged, whatever its masks.
C6_IdentityCase ==
    (IsSextCall /\ ret.status # "pending"
       /\ call.SrcBitWidth = call.KBInstance.Zero.BitWidth) =>
        /\ ret.status = "returned"
        /\ ret.value.Zero = call.KBInstance.Zero
        /\ ret.value.One = call.KBInstance.One

C6_Witness ==
    /\ call.fn = "sextInRegDecomposed"
    /\ call.SrcBitWidth = 3
    /\ call.KBInstance.Zero.BitWidth = 3
    /\ call.KBInstance.Zero.VAL = 4
    /\ call.KBInstance.One.VAL = 1
    /\ ret.status = "returned"
    /\ ret.value = call.KBInstance

\* C7: a call of either transfer function with SrcBitWidth = 0 or
\* SrcBitWidth greater than the width ends in the abort and returns no
\* abstract value.
C7_PreconditionEnforced ==
    (IsSextCall /\ ret.status # "pending"
       /\ (call.SrcBitWidth = 0
           \/ call.SrcBitWidth > call.KBInstance.Zero.BitWidth)) =>
        /\ ret.status = "aborted"
        /\ "value" \notin DOMAIN ret

C7_Witness ==
    /\ call.fn = "sextInRegComposite"
    /\ call.SrcBitWidth = 0
    /\ ret.status = "aborted"

\* C8: every abstract value the functions produce has disjoint masks of the
\* input bit-width: the values enumerateKnownBits emits, the results of both
\* transfer functions on well-formed inputs, and the result of abstract.
C8_WellFormedResults ==
    /\ (call.fn = "enumerateKnownBits" /\ ret.status = "returned") =>
          \A k \in 1..Len(ret.value) :
              /\ WellFormed(ret.value[k])
              /\ ret.value[k].Zero.BitWidth = call.BitWidth
    /\ (IsSextCall /\ ret.status = "returned" /\ WellFormed(call.KBInstance)) =>
          /\ WellFormed(ret.value)
          /\ ret.value.Zero.BitWidth = call.KBInstance.Zero.BitWidth
    /\ (call.fn = "abstract" /\ ret.status = "returned") =>
          /\ WellFormed(ret.value)
          /\ ret.value.Zero.BitWidth = call.BitWidth

C8_Witness ==
    /\ call.fn = "sextInRegComposite"
    /\ WellFormed(call.KBInstance)
    /\ call.KBInstance.Zero.BitWidth = 4
    /\ call.SrcBitWidth = 2
    /\ Bit(call.KBInstance.One, 1)
    /\ ret.status = "returned"
    /\ WellFormed(ret.value)
    /\ ret.value.One.BitWidth = 4

\* C9, the part about states: the counters are zero when the loop of a pair
\* starts, Total is the sum of the other four throughout, and a printed
\* block has Total = 3^BitWidth.
C9_CounterState ==
    /\ (pc = "loop" /\ idx = 0) => counters = <<0, 0, 0, 0, 0>>
    /\ TotalComparisons =
         EquallyPrecise + CompositeMorePrecise + DecomposedMorePrecise + Incomparable
    /\ pc = "loop" => TotalComparisons = idx
    /\ \A k \in 1..Len(stdout) :
        /\ stdout[k].Total = 3 ^ stdout[k].BitWidth
        /\ stdout[k].Total =
             stdout[k].Equal + stdout[k].CompositeMore
             + stdout[k].DecomposedMore + stdout[k].Incomparable

\* C9, the part about steps: an iteration increments Total and exactly one
\* other counter: Equal if the two concretizations are the same set,
\* Composite-more if the composite's is a proper subset of the decomposed's,
\* Decomposed-more if the converse, Incomparable if neither is a subset.
C9_CounterStep ==
    idx' = idx + 1 =>
        LET eq == CompositeConcrete' = DecomposedConcrete'
            csub == CompositeConcrete' \subseteq DecomposedConcrete'
            dsub == DecomposedConcrete' \subseteq CompositeConcrete'
            one(c) == IF c THEN 1 ELSE 0
        IN  /\ TotalComparisons' = TotalComparisons + 1
            /\ EquallyPrecise' = EquallyPrecise + one(eq)
            /\ CompositeMorePrecise' = CompositeMorePrecise + one(csub /\ ~eq)
            /\ DecomposedMorePrecise' = DecomposedMorePrecise + one(dsub /\ ~eq)
            /\ Incomparable' = Incomparable + one(~csub /\ ~dsub)

\* C9: the counter invariant of the driver, states and steps together.
C9_CounterInvariant == []C9_CounterState /\ [][C9_CounterStep]_vars

C9_Witness ==
    /\ pc = "loop"
    /\ Len(stdout) = 5
    /\ stdout[5].Total = 243
    /\ runBitWidth = 5
    /\ runSrcBitWidth = 2
    /\ idx = 7
    /\ TotalComparisons = 7

\* C10: on a well-formed input and 0 < S <= W the decomposed transfer
\* function returns the abstraction of the sign-extended concretization of
\* its input, and the sign extension of every value of the input's
\* concretization is in the concretization of the result.
C10_DecomposedIsBestTransformer ==
    (call.fn = "sextInRegDecomposed" /\ ret.status = "returned"
       /\ WellFormed(call.KBInstance)) =>
        LET W == call.KBInstance.Zero.BitWidth
            S == call.SrcBitWidth
            image == { APInt(W, SextConcrete(c.VAL, S, W)) :
                         c \in concretize(call.KBInstance) }
        IN  /\ ret.value = abstract(image, W)
            /\ image \subseteq concretize(ret.value)

C10_Witness ==
    /\ call.fn = "sextInRegDecomposed"
    /\ ret.status = "returned"
    /\ WellFormed(call.KBInstance)
    /\ call.KBInstance.Zero.BitWidth = 4
    /\ call.SrcBitWidth = 2
    /\ Bit(call.KBInstance.Zero, 1)
    /\ UnknownBits(call.KBInstance) = {0, 3}
    /\ UnknownBits(ret.value) = {0}

=============================================================================
